---- MODULE Spec2Model ----
(***************************************************************************)
(* Model of the glue code of MLX_Fine-Tuning/mlx-fine-tuning.ipynb:        *)
(*   - class Dataset            (__init__, __getitem__, __len__)           *)
(*   - load_dataset(path)                                                  *)
(*   - modify_model_with_lora(model)                                       *)
(*   - setup() and the main cell (setup, modify_model_with_lora,           *)
(*     train_model)                                                        *)
(* Three specifications: SpecData (dataset loading and access), SpecLora   *)
(* (the in-place LoRA patch of the module tree) and SpecRun (the main      *)
(* cell, start to end).                                                    *)
(***************************************************************************)
EXTENDS Integers, Sequences, FiniteSets, TLC

(***************************************************************************)
(* Bounds of the model.                                                    *)
(***************************************************************************)
MaxLines == 3
MaxLayers == 2
MaxExperts == 1
MaxRunLines == 1
MaxRunLayers == 1

(***************************************************************************)
(* ------------------------- DATASET PART -------------------------------- *)
(***************************************************************************)
VARIABLES
    pathKind,    \* what the path names on disk: "missing", "file" or "dir"
    fileLines,   \* the lines of the file, as iteration over it yields them
    dpc,         \* "start" | "returned" | "raised"   (load_dataset)
    derr,        \* the exception load_dataset raised, or "none"
    result,      \* the value load_dataset returned (a Dataset, or None)
    opened,      \* TRUE iff open(path, "r") succeeded
    parsed,      \* number of lines handed to json.loads
    lastGet,     \* the last Dataset.__getitem__ call and its outcome
    lastLen      \* the last value of len(dataset), -1 before any call

dvars == <<pathKind, fileLines, dpc, derr, result, opened, parsed, lastGet, lastLen>>

\* The default text key of Dataset.__init__.
DefaultKey == "text"

\* What one line of the file can hold.  "object": a JSON object with the
\* given fields; "scalar": valid JSON that is not an object; "blank": a line
\* holding only its terminator; "garbage": text that is not JSON.
ObjectFields == { ("text" :> "a"), ("text" :> "b"), ("other" :> "a") }

NoFields == [k \in {} |-> "a"]

Lines ==
    { [form |-> "object", fields |-> f] : f \in ObjectFields }
    \cup { [form |-> fm, fields |-> NoFields] : fm \in {"scalar", "blank", "garbage"} }

Files == UNION { [1..n -> Lines] : n \in 0..MaxLines }

\* Python's None and the Dataset object, in one record shape.
None == [cls |-> "None", data |-> <<>>, key |-> ""]

\* json.loads(line): a dict for an object, a non-dict value for a scalar,
\* JSONDecodeError for anything else (an empty line included).
json_loads(line) ==
    CASE line.form = "object" -> [ok |-> TRUE,  type |-> "dict",   fields |-> line.fields]
      [] line.form = "scalar" -> [ok |-> TRUE,  type |-> "scalar", fields |-> NoFields]
      [] OTHER                -> [ok |-> FALSE, type |-> "none",   fields |-> NoFields]

\* Dataset.__init__(data, key)
Dataset_init(data, key) == [cls |-> "Dataset", data |-> data, key |-> key]

\* Dataset.__len__
Dataset_len(ds) == Len(ds.data)

\* Variant of __getitem__ that rejects every negative index.
Dataset_getitem_noneg(ds, idx) ==
    LET n == Len(ds.data)
    IN  IF idx >= n \/ idx < 0
          THEN [status |-> "IndexError", value |-> ""]
        ELSE IF ds.data[idx + 1].type # "dict"
          THEN [status |-> "TypeError", value |-> ""]
        ELSE IF ds.key \notin DOMAIN ds.data[idx + 1].fields
          THEN [status |-> "KeyError", value |-> ""]
        ELSE [status |-> "ok", value |-> ds.data[idx + 1].fields[ds.key]]

\* Variant of __getitem__ that reads the key with a default, as
\* self._data[idx].get(self._key, "") would.
Dataset_getitem_default(ds, idx) ==
    LET n   == Len(ds.data)
        pos == IF idx < 0 THEN n + idx + 1 ELSE idx + 1
    IN  IF idx >= n \/ idx < -n
          THEN [status |-> "IndexError", value |-> ""]
        ELSE IF ds.data[pos].type # "dict"
          THEN [status |-> "TypeError", value |-> ""]
        ELSE IF ds.key \notin DOMAIN ds.data[pos].fields
          THEN [status |-> "ok", value |-> ""]
        ELSE [status |-> "ok", value |-> ds.data[pos].fields[ds.key]]

\* Dataset.__getitem__(idx): self._data[idx][self._key], with the indexing
\* rules of a Python list (a negative index counts from the end) and of a
\* dict (KeyError) or a non-subscriptable value (TypeError).
Dataset_getitem(ds, idx) ==
    LET n   == Len(ds.data)
        pos == IF idx < 0 THEN n + idx + 1 ELSE idx + 1
    IN  IF idx >= n \/ idx < -n
          THEN [status |-> "IndexError", value |-> ""]
        ELSE IF ds.data[pos].type # "dict"
          THEN [status |-> "TypeError", value |-> ""]
        ELSE IF ds.key \notin DOMAIN ds.data[pos].fields
          THEN [status |-> "KeyError", value |-> ""]
        ELSE [status |-> "ok", value |-> ds.data[pos].fields[ds.key]]

\* Variant of the comprehension that builds the list back to front.
RECURSIVE parse_lines_prepend(_, _, _)
parse_lines_prepend(lines, i, acc) ==
    IF i > Len(lines)
      THEN [ok |-> TRUE, data |-> acc, calls |-> Len(lines)]
    ELSE IF json_loads(lines[i]).ok
      THEN parse_lines_prepend(lines, i + 1, <<json_loads(lines[i])>> \o acc)
    ELSE [ok |-> FALSE, data |-> <<>>, calls |-> i]

\* Variant of the comprehension that swallows the parse error of a line and
\* goes on with the next one.
RECURSIVE parse_lines_skipbad(_, _, _)
parse_lines_skipbad(lines, i, acc) ==
    IF i > Len(lines)
      THEN [ok |-> TRUE, data |-> acc, calls |-> Len(lines)]
    ELSE IF json_loads(lines[i]).ok
      THEN parse_lines_skipbad(lines, i + 1, Append(acc, json_loads(lines[i])))
    ELSE parse_lines_skipbad(lines, i + 1, acc)

\* The list comprehension [json.loads(line) for line in fid]: parses the
\* lines in order and stops at the first one json.loads rejects.
RECURSIVE parse_lines(_, _, _)
parse_lines(lines, i, acc) ==
    IF i > Len(lines)
      THEN [ok |-> TRUE, data |-> acc, calls |-> Len(lines)]
    ELSE IF json_loads(lines[i]).ok
      THEN parse_lines(lines, i + 1, Append(acc, json_loads(lines[i])))
    ELSE [ok |-> FALSE, data |-> <<>>, calls |-> i]

\* Variant of load_dataset without the existence check, opening the file in
\* a mode that creates it.
load_dataset_create(kind, lines) ==
    IF kind = "dir"
      THEN [raised |-> "IsADirectoryError", ret |-> None, opened |-> FALSE, calls |-> 0]
    ELSE LET p == parse_lines(lines, 1, <<>>)
         IN  IF p.ok
               THEN [raised |-> "none", ret |-> Dataset_init(p.data, DefaultKey),
                     opened |-> TRUE, calls |-> p.calls]
               ELSE [raised |-> "JSONDecodeError", ret |-> None,
                     opened |-> TRUE, calls |-> p.calls]

\* load_dataset(path)
load_dataset(kind, lines) ==
    IF kind = "missing"
      THEN [raised |-> "FileNotFoundError", ret |-> None, opened |-> FALSE, calls |-> 0]
    ELSE IF kind = "dir"
      THEN [raised |-> "IsADirectoryError", ret |-> None, opened |-> FALSE, calls |-> 0]
    ELSE LET p == parse_lines(lines, 1, <<>>)
         IN  IF p.ok
               THEN [raised |-> "none", ret |-> Dataset_init(p.data, DefaultKey),
                     opened |-> TRUE, calls |-> p.calls]
               ELSE [raised |-> "JSONDecodeError", ret |-> None,
                     opened |-> TRUE, calls |-> p.calls]

NoGet == [called |-> FALSE, idx |-> 0, status |-> "none", value |-> ""]

Indices == (0 - (MaxLines + 1)) .. (MaxLines + 1)

DataInit ==
    /\ pathKind \in {"missing", "file", "dir"}
    /\ fileLines \in (IF pathKind = "file" THEN Files ELSE {<<>>})
    /\ dpc = "start"
    /\ derr = "none"
    /\ result = None
    /\ opened = FALSE
    /\ parsed = 0
    /\ lastGet = NoGet
    /\ lastLen = -1

\* A call of load_dataset(path).
LoadDataset ==
    /\ dpc = "start"
    /\ LET r == load_dataset(pathKind, fileLines)
       IN  /\ dpc' = IF r.raised = "none" THEN "returned" ELSE "raised"
           /\ derr' = r.raised
           /\ result' = r.ret
           /\ opened' = r.opened
           /\ parsed' = r.calls
    /\ UNCHANGED <<pathKind, fileLines, lastGet, lastLen>>

\* A call of dataset[idx] on the returned Dataset.
GetItem ==
    /\ dpc = "returned"
    /\ \E idx \in Indices :
         LET o == Dataset_getitem(result, idx)
         IN  lastGet' = [called |-> TRUE, idx |-> idx, status |-> o.status, value |-> o.value]
    /\ UNCHANGED <<pathKind, fileLines, dpc, derr, result, opened, parsed, lastLen>>

\* A call of len(dataset) on the returned Dataset.
GetLen ==
    /\ dpc = "returned"
    /\ lastLen' = Dataset_len(result)
    /\ UNCHANGED <<pathKind, fileLines, dpc, derr, result, opened, parsed, lastGet>>

(***************************************************************************)
(* ----------------------- MODEL-ADAPTER PART ---------------------------- *)
(***************************************************************************)
VARIABLES
    model,       \* the module tree, mutated in place
    model0,      \* the tree as it was handed to modify_model_with_lora
    lpc,         \* "start" | "done" | "raised"   (modify_model_with_lora)
    lerr,        \* the exception modify_model_with_lora raised, or "none"
    lfail        \* index of the layer whose processing raised, 0 if none

lvars == <<model, model0, lpc, lerr, lfail>>


\* The hyperparameters passed to LoRALinear.from_linear.
LoraR == 64
LoraAlpha == 128

\* The list `projections` of modify_model_with_lora.
projections ==
    <<"q_proj", "k_proj", "v_proj", "o_proj", "gate_proj", "up_proj", "down_proj">>

Range(s) == { s[i] : i \in DOMAIN s }

\* projections[:4] and projections[4:]
AttnProjections == Range(SubSeq(projections, 1, 4))
MoeProjections == Range(SubSeq(projections, 5, 7))

\* Attribute sets a module of the tree can expose (every attribute is a
\* linear module).  {"qkv_proj", "o_proj"} is the fused-attention layout.
AttnShapes ==
    { {}, {"q_proj", "v_proj"}, {"qkv_proj", "o_proj"},
      {"q_proj", "k_proj", "v_proj", "o_proj"} }
MoeShapes == { {"gate", "q_proj", "gate_proj", "up_proj"} }
ExpertShapes == { {"w1", "gate_proj", "up_proj", "q_proj"} }

ExpertLists == UNION { [1..n -> ExpertShapes] : n \in 0..MaxExperts }

\* The shapes of one layer: which sub-components it has and what they expose.
LayerShapes ==
    { s \in [has_self_attn : BOOLEAN, attn : AttnShapes,
             has_moe : BOOLEAN, moe : MoeShapes \cup {{}},
             has_experts : BOOLEAN, experts : ExpertLists] :
        /\ (~s.has_self_attn => s.attn = {})
        /\ (s.has_moe => s.moe \in MoeShapes)
        /\ (~s.has_moe => s.moe = {} /\ ~s.has_experts)
        /\ (~s.has_experts => s.experts = <<>>) }

ModelShapes == UNION { [1..n -> LayerShapes] : n \in 0..MaxLayers }

\* A linear module of the loaded model, named by its place in the tree.
Linear(layer, owner, slot, name, frozen) ==
    [cls |-> "Linear",
     id |-> [layer |-> layer, owner |-> owner, slot |-> slot, name |-> name],
     frozen |-> frozen]

LinearAttrs(names, layer, owner, slot, frozen) ==
    [n \in names |-> Linear(layer, owner, slot, n, frozen)]

\* The tree load() returns for a shape; `frozen` is the state of its
\* parameters before the patch.
BuildLayer(s, i, frozen) ==
    [has_self_attn    |-> s.has_self_attn,
     self_attn        |-> LinearAttrs(s.attn, i, "self_attn", 0, frozen),
     has_moe          |-> s.has_moe,
     block_sparse_moe |-> LinearAttrs(s.moe, i, "block_sparse_moe", 0, frozen),
     has_experts      |-> s.has_experts,
     experts          |-> [k \in DOMAIN s.experts |->
                             LinearAttrs(s.experts[k], i, "expert", k, frozen)],
     input_layernorm  |-> Linear(i, "layer", 0, "input_layernorm", frozen)]

BuildModel(shape, frozen) ==
    [layers |-> [i \in DOMAIN shape |-> BuildLayer(shape[i], i, frozen)]]

EmptyModel == [layers |-> <<>>]

\* Module.freeze() on one module: every parameter it holds, recursively.
FreezeModule(m) ==
    IF m.cls = "LoRALinear"
      THEN [m EXCEPT !.linear.frozen = TRUE, !.lora_frozen = TRUE]
      ELSE [m EXCEPT !.frozen = TRUE]

FreezeAttrs(attrs) == [n \in DOMAIN attrs |-> FreezeModule(attrs[n])]

\* Variant of the patch in which model.freeze() is left out.
freeze_skipped(m) == m

\* model.freeze()
freeze(m) ==
    [layers |-> [i \in DOMAIN m.layers |->
        [m.layers[i] EXCEPT
            !.self_attn = FreezeAttrs(@),
            !.block_sparse_moe = FreezeAttrs(@),
            !.experts = [k \in DOMAIN @ |-> FreezeAttrs(@[k])],
            !.input_layernorm = FreezeModule(@)]]]

\* LoRALinear.from_linear(linear, r, alpha): a new module holding the given
\* one, with new (trainable) low-rank parameters.
LoRALinear_from_linear(linear, r, alpha) ==
    [cls |-> "LoRALinear", linear |-> linear, r |-> r, alpha |-> alpha,
     lora_frozen |-> FALSE]

\* Variant of the replacement loop without the hasattr test: a name the
\* object lacks gets a wrapper around a new linear module.
lora_patch_nohasattr(attrs, names) ==
    [n \in DOMAIN attrs \cup names |->
        IF n \notin DOMAIN attrs
          THEN LoRALinear_from_linear(Linear(0, "new", 0, n, FALSE), LoraR, LoraAlpha)
        ELSE IF n \in names
          THEN LoRALinear_from_linear(attrs[n], LoraR, LoraAlpha)
        ELSE attrs[n]]

\* for proj in names: if hasattr(obj, proj): setattr(obj, proj,
\*     LoRALinear.from_linear(getattr(obj, proj), r=64, alpha=128))
lora_patch(attrs, names) ==
    [n \in DOMAIN attrs |->
        IF n \in names
          THEN LoRALinear_from_linear(attrs[n], LoraR, LoraAlpha)
          ELSE attrs[n]]

\* Variant of the loop body without the hasattr(l, "block_sparse_moe") test.
modify_layer_unguarded(l) ==
    IF ~l.has_self_attn
      THEN [layer |-> l, err |-> "AttributeError"]
    ELSE LET l1 == [l EXCEPT !.self_attn = lora_patch(@, AttnProjections)]
         IN  IF ~l1.has_moe
               THEN [layer |-> l1, err |-> "AttributeError"]
             ELSE LET l2 == [l1 EXCEPT !.block_sparse_moe = lora_patch(@, MoeProjections)]
                  IN  IF ~l2.has_experts
                        THEN [layer |-> l2, err |-> "AttributeError"]
                        ELSE [layer |-> [l2 EXCEPT !.experts =
                                           [k \in DOMAIN @ |-> lora_patch(@[k], Range(projections))]],
                              err |-> "none"]

\* Variant of the loop body that checks only projections[4:] on an expert.
modify_layer_expertsffn(l) ==
    IF ~l.has_self_attn
      THEN [layer |-> l, err |-> "AttributeError"]
    ELSE LET l1 == [l EXCEPT !.self_attn = lora_patch(@, AttnProjections)]
         IN  IF ~l1.has_moe
               THEN [layer |-> l1, err |-> "none"]
             ELSE LET l2 == [l1 EXCEPT !.block_sparse_moe = lora_patch(@, MoeProjections)]
                  IN  IF ~l2.has_experts
                        THEN [layer |-> l2, err |-> "AttributeError"]
                        ELSE [layer |-> [l2 EXCEPT !.experts =
                                           [k \in DOMAIN @ |-> lora_patch(@[k], MoeProjections)]],
                              err |-> "none"]

\* The body of `for l in model.model.layers`.  l.self_attn and
\* l.block_sparse_moe.experts are read without a guard: a missing one
\* raises AttributeError, after the assignments made so far.
modify_layer(l) ==
    IF ~l.has_self_attn
      THEN [layer |-> l, err |-> "AttributeError"]
    ELSE LET l1 == [l EXCEPT !.self_attn = lora_patch(@, AttnProjections)]
         IN  IF ~l1.has_moe
               THEN [layer |-> l1, err |-> "none"]
             ELSE LET l2 == [l1 EXCEPT !.block_sparse_moe = lora_patch(@, MoeProjections)]
                  IN  IF ~l2.has_experts
                        THEN [layer |-> l2, err |-> "AttributeError"]
                        ELSE [layer |-> [l2 EXCEPT !.experts =
                                           [k \in DOMAIN @ |-> lora_patch(@[k], Range(projections))]],
                              err |-> "none"]

\* The loop over model.model.layers, in order, stopping at the first raise.
RECURSIVE modify_layers(_, _)
modify_layers(m, i) ==
    IF i > Len(m.layers)
      THEN [model |-> m, err |-> "none", at |-> 0]
    ELSE LET r == modify_layer(m.layers[i])
             m1 == [m EXCEPT !.layers[i] = r.layer]
         IN  IF r.err # "none"
               THEN [model |-> m1, err |-> r.err, at |-> i]
               ELSE modify_layers(m1, i + 1)

\* modify_model_with_lora(model)
modify_model_with_lora(m) == modify_layers(freeze(m), 1)

LoraInit ==
    /\ \E shape \in ModelShapes, frozen \in BOOLEAN :
          /\ model = BuildModel(shape, frozen)
          /\ model0 = BuildModel(shape, frozen)
    /\ lpc = "start"
    /\ lerr = "none"
    /\ lfail = 0

\* The call modify_model_with_lora(model) of the notebook's main cell.
ModifyModel ==
    /\ lpc = "start"
    /\ LET r == modify_model_with_lora(model)
       IN  /\ model' = r.model
           /\ lerr' = r.err
           /\ lfail' = r.at
           /\ lpc' = IF r.err = "none" THEN "done" ELSE "raised"
    /\ UNCHANGED model0

(***************************************************************************)
(* ------------------------------ MAIN CELL ------------------------------ *)
(* model, tokenizer, train_dst, valid_dst = setup()                        *)
(* modify_model_with_lora(model)                                           *)
(* train_model(model, tokenizer, train_dst, valid_dst)                     *)
(* The training dataset is held in the variables of the dataset part.      *)
(***************************************************************************)
VARIABLES
    rpc,         \* "setup" | "adapt" | "train" | "end" | "failed"
    rerr,        \* the exception that ended the cell, or "none"
    modelOk,     \* TRUE iff load(model_path) returns a model
    valKind,     \* what the validation path names on disk
    valLines,    \* the lines of the validation file
    valResult,   \* valid_dst: the validation Dataset, or None
    adaptCalls,  \* number of calls of modify_model_with_lora
    trainCalls   \* number of calls of the external train()

rvars == <<rpc, rerr, modelOk, valKind, valLines, valResult, adaptCalls, trainCalls>>

vars == <<pathKind, fileLines, dpc, derr, result, opened, parsed, lastGet, lastLen,
          model, model0, lpc, lerr, lfail,
          rpc, rerr, modelOk, valKind, valLines, valResult, adaptCalls, trainCalls>>

\* The files and trees of a run: a record, an empty line or a line that is
\* not JSON; layers with or without self_attn, block_sparse_moe, experts.
RunLines == { l \in Lines : l.form \in {"blank", "garbage"} \/ l.fields = ("text" :> "a") }
RunFiles == UNION { [1..n -> RunLines] : n \in 0..MaxRunLines }
RunLayerShapes ==
    { s \in LayerShapes :
        /\ s.experts = <<>>
        /\ s.attn \in {{}, AttnProjections}
        /\ s.moe \in MoeShapes \cup {{}} }
RunModelShapes == UNION { [1..n -> RunLayerShapes] : n \in 0..MaxRunLayers }

\* The outcome of a load_dataset call that was never made.
NotCalled == [raised |-> "none", ret |-> None, opened |-> FALSE, calls |-> 0]

\* Variant of setup() that carries on without the validation set when it
\* cannot be loaded.
setup_novalid(mOk, tKind, tLines, vKind, vLines) ==
    IF ~mOk
      THEN [raised |-> "LoadError", train |-> NotCalled, val |-> NotCalled]
    ELSE LET t == load_dataset(tKind, tLines)
         IN  IF t.raised # "none"
               THEN [raised |-> t.raised, train |-> t, val |-> NotCalled]
               ELSE [raised |-> "none", train |-> t, val |-> load_dataset(vKind, vLines)]

\* setup(): load(model_path), then load_dataset of the training path, then
\* load_dataset of the validation path; the first exception leaves setup().
setup(mOk, tKind, tLines, vKind, vLines) ==
    IF ~mOk
      THEN [raised |-> "LoadError", train |-> NotCalled, val |-> NotCalled]
    ELSE LET t == load_dataset(tKind, tLines)
         IN  IF t.raised # "none"
               THEN [raised |-> t.raised, train |-> t, val |-> NotCalled]
             ELSE LET v == load_dataset(vKind, vLines)
                  IN  [raised |-> v.raised, train |-> t, val |-> v]

RunInit ==
    /\ pathKind \in {"missing", "file", "dir"}
    /\ fileLines \in (IF pathKind = "file" THEN RunFiles ELSE {<<>>})
    /\ valKind \in {"missing", "file", "dir"}
    /\ valLines \in (IF valKind = "file" THEN RunFiles ELSE {<<>>})
    /\ modelOk \in BOOLEAN
    /\ \E shape \in (IF modelOk THEN RunModelShapes ELSE {<<>>}) :
          /\ model = BuildModel(shape, FALSE)
          /\ model0 = BuildModel(shape, FALSE)
    /\ dpc = "start" /\ derr = "none" /\ result = None
    /\ opened = FALSE /\ parsed = 0
    /\ lastGet = NoGet /\ lastLen = -1
    /\ lpc = "start" /\ lerr = "none" /\ lfail = 0
    /\ rpc = "setup" /\ rerr = "none"
    /\ valResult = None
    /\ adaptCalls = 0 /\ trainCalls = 0

\* Line 1 of the main cell: setup().
RunSetup ==
    /\ rpc = "setup"
    /\ LET s == setup(modelOk, pathKind, fileLines, valKind, valLines)
       IN  /\ result' = s.train.ret
           /\ derr' = s.train.raised
           /\ opened' = s.train.opened
           /\ parsed' = s.train.calls
           /\ dpc' = IF s.train.raised # "none" THEN "raised"
                     ELSE IF s.train.ret = None THEN "start" ELSE "returned"
           /\ valResult' = s.val.ret
           /\ rerr' = s.raised
           /\ rpc' = IF s.raised = "none" THEN "adapt" ELSE "failed"
    /\ UNCHANGED <<pathKind, fileLines, lastGet, lastLen>>
    /\ UNCHANGED lvars
    /\ UNCHANGED <<modelOk, valKind, valLines, adaptCalls, trainCalls>>

\* Line 2 of the main cell: modify_model_with_lora(model).
RunModify ==
    /\ rpc = "adapt"
    /\ LET r == modify_model_with_lora(model)
       IN  /\ model' = r.model
           /\ lerr' = r.err
           /\ lfail' = r.at
           /\ lpc' = IF r.err = "none" THEN "done" ELSE "raised"
           /\ rerr' = r.err
           /\ rpc' = IF r.err = "none" THEN "train" ELSE "failed"
    /\ adaptCalls' = adaptCalls + 1
    /\ UNCHANGED model0
    /\ UNCHANGED dvars
    /\ UNCHANGED <<modelOk, valKind, valLines, valResult, trainCalls>>

\* Line 3 of the main cell: train_model(...), which calls the external
\* train() once; train() returns or raises.
RunTrain ==
    /\ rpc = "train"
    /\ trainCalls' = trainCalls + 1
    /\ \E ok \in BOOLEAN :
          /\ rpc' = IF ok THEN "end" ELSE "failed"
          /\ rerr' = IF ok THEN "none" ELSE "TrainError"
    /\ UNCHANGED dvars
    /\ UNCHANGED lvars
    /\ UNCHANGED <<modelOk, valKind, valLines, valResult, adaptCalls>>

(***************************************************************************)
(* Specifications.                                                         *)
(***************************************************************************)
DataIdle ==
    /\ pathKind = "missing" /\ fileLines = <<>> /\ dpc = "start" /\ derr = "none"
    /\ result = None /\ opened = FALSE /\ parsed = 0
    /\ lastGet = NoGet /\ lastLen = -1

LoraIdle ==
    /\ model = EmptyModel /\ model0 = EmptyModel
    /\ lpc = "start" /\ lerr = "none" /\ lfail = 0

RunIdle ==
    /\ rpc = "setup" /\ rerr = "none" /\ modelOk = FALSE
    /\ valKind = "missing" /\ valLines = <<>> /\ valResult = None
    /\ adaptCalls = 0 /\ trainCalls = 0

InitData == DataInit /\ LoraIdle /\ RunIdle
NextData ==
    \/ LoadDataset /\ UNCHANGED lvars /\ UNCHANGED rvars
    \/ GetItem /\ UNCHANGED lvars /\ UNCHANGED rvars
    \/ GetLen /\ UNCHANGED lvars /\ UNCHANGED rvars
SpecData == InitData /\ [][NextData]_vars

InitLora == LoraInit /\ DataIdle /\ RunIdle
NextLora == ModifyModel /\ UNCHANGED dvars /\ UNCHANGED rvars
SpecLora == InitLora /\ [][NextLora]_vars

InitRun == RunInit
NextRun ==
    \/ RunSetup
    \/ RunModify
    \/ RunTrain
SpecRun == InitRun /\ [][NextRun]_vars

(***************************************************************************)
(* ------------------------------ CLAIMS --------------------------------- *)
(***************************************************************************)
IsRecord(line) == line.form = "object" /\ DefaultKey \in DOMAIN line.fields
IsBlank(line) == line.form = "blank"
IsObject(line) == line.form = "object"
NotBlank(line) == ~IsBlank(line)
NonEmptyLines(lines) == SelectSeq(lines, NotBlank)
\* every line is a record with the text key, or empty
ValidFile(lines) == \A i \in DOMAIN lines : IsRecord(lines[i]) \/ IsBlank(lines[i])
\* every line is a record with the text key
AllRecords(lines) == \A i \in DOMAIN lines : IsRecord(lines[i])
Loaded == pathKind = "file" /\ dpc # "start"
OkText(v) == [status |-> "ok", value |-> v]

\* C1 (as stated): for every valid file, empty lines allowed, load_dataset
\* returns a Dataset whose length is the number of non-empty lines and whose
\* i-th item is the text field of the i-th non-empty line.
C1_AsStated ==
    (Loaded /\ ValidFile(fileLines)) =>
        /\ dpc = "returned"
        /\ Dataset_len(result) = Len(NonEmptyLines(fileLines))
        /\ \A i \in 1..Len(NonEmptyLines(fileLines)) :
              Dataset_getitem(result, i - 1) = OkText(NonEmptyLines(fileLines)[i].fields[DefaultKey])

\* C1 (amended): for every file whose every line is a record with the text
\* key, load_dataset returns a Dataset whose length is the number of lines
\* and whose i-th item (0 <= i < length) is the text field of the i-th line;
\* a file of records and at least one empty line fails with a parse error.
C1_LoadRoundTrip ==
    /\ (Loaded /\ AllRecords(fileLines)) =>
          /\ dpc = "returned"
          /\ Dataset_len(result) = Len(fileLines)
          /\ \A i \in 1..Len(fileLines) :
                Dataset_getitem(result, i - 1) = OkText(fileLines[i].fields[DefaultKey])
          /\ (lastLen # -1 => lastLen = Len(fileLines))
          /\ (lastGet.called /\ 0 <= lastGet.idx /\ lastGet.idx < Len(fileLines)) =>
                /\ lastGet.status = "ok"
                /\ lastGet.value = fileLines[lastGet.idx + 1].fields[DefaultKey]
    /\ (Loaded /\ ValidFile(fileLines) /\ ~AllRecords(fileLines)) =>
          /\ dpc = "raised"
          /\ derr = "JSONDecodeError"

C1_Witness ==
    /\ Loaded /\ AllRecords(fileLines) /\ Len(fileLines) >= 2
    /\ fileLines[1] # fileLines[2]
    /\ lastLen = Len(fileLines)
    /\ lastGet.called /\ lastGet.idx = 1 /\ lastGet.status = "ok"

\* C2 (as stated): get(i) fails with an out-of-range error for every
\* i >= length and every i < 0, and returns a value only when 0 <= i < length.
C2_AsStated ==
    lastGet.called =>
        /\ (lastGet.idx >= Dataset_len(result) \/ lastGet.idx < 0) => lastGet.status = "IndexError"
        /\ lastGet.status = "ok" => (0 <= lastGet.idx /\ lastGet.idx < Dataset_len(result))

\* C2 (amended): get(i) fails with an out-of-range error exactly when
\* i >= length or i < -length; it returns a value only when
\* -length <= i < length, a negative i addressing record length + i.
C2_IndexRange ==
    lastGet.called =>
        LET n == Dataset_len(result)
            at == IF lastGet.idx < 0 THEN n + lastGet.idx + 1 ELSE lastGet.idx + 1
        IN  /\ lastGet.status = "IndexError" <=> (lastGet.idx >= n \/ lastGet.idx < 0 - n)
            /\ lastGet.status = "ok" =>
                  /\ 0 - n <= lastGet.idx /\ lastGet.idx < n
                  /\ IsRecord(fileLines[at])
                  /\ lastGet.value = fileLines[at].fields[DefaultKey]

C2_Witness ==
    /\ lastGet.called /\ Dataset_len(result) >= 1
    /\ lastGet.idx < 0 /\ lastGet.status = "IndexError"

HasGarbage(lines) == \E i \in DOMAIN lines : lines[i].form = "garbage"

\* C6: a file holding a malformed line makes load_dataset fail with a parse
\* error; nothing is returned, so no item or length of a partial dataset can
\* ever be read.
C6_ParseErrorAborts ==
    (Loaded /\ HasGarbage(fileLines)) =>
        /\ dpc = "raised"
        /\ derr = "JSONDecodeError"
        /\ result = None
        /\ lastGet = NoGet
        /\ lastLen = -1

C6_Witness ==
    /\ Loaded /\ Len(fileLines) >= 2
    /\ IsRecord(fileLines[1]) /\ fileLines[2].form = "garbage"
    /\ dpc = "raised" /\ parsed = 2

AllObjects(lines) == \A i \in DOMAIN lines : IsObject(lines[i])

\* C8: a record without the text key is accepted by load_dataset and counted
\* by the length; only get(i) on that record fails, with KeyError, while
\* get(j) on a record that has the key returns its text.
C8_KeyMissingAtAccess ==
    /\ (Loaded /\ AllObjects(fileLines)) =>
          /\ dpc = "returned"
          /\ Dataset_len(result) = Len(fileLines)
          /\ (lastLen # -1 => lastLen = Len(fileLines))
    /\ (dpc = "returned" /\ lastGet.called /\ 0 <= lastGet.idx /\ lastGet.idx < Len(fileLines)) =>
          LET line == fileLines[lastGet.idx + 1]
          IN  /\ (IsObject(line) /\ ~IsRecord(line)) => lastGet.status = "KeyError"
              /\ IsRecord(line) => (lastGet.status = "ok" /\ lastGet.value = line.fields[DefaultKey])

C8_Witness ==
    /\ dpc = "returned" /\ AllObjects(fileLines) /\ ~AllRecords(fileLines)
    /\ \E i \in DOMAIN fileLines : IsRecord(fileLines[i])
    /\ lastLen = Len(fileLines)
    /\ lastGet.called /\ lastGet.status = "KeyError"

FnRange(f) == { f[x] : x \in DOMAIN f }

\* every module of the tree
LayerModules(l) ==
    FnRange(l.self_attn) \cup FnRange(l.block_sparse_moe)
    \cup UNION { FnRange(l.experts[k]) : k \in DOMAIN l.experts }
    \cup {l.input_layernorm}
Modules(m) == UNION { LayerModules(m.layers[i]) : i \in DOMAIN m.layers }
Wrappers(m) == { x \in Modules(m) : x.cls = "LoRALinear" }
\* the parameters a module had before the patch are frozen
BaseFrozen(x) == IF x.cls = "LoRALinear" THEN x.linear.frozen ELSE x.frozen
\* x is a wrapper around the module `orig` of the tree before the patch
Wraps(x, orig) ==
    /\ x.cls = "LoRALinear"
    /\ x.linear.cls = "Linear" /\ x.linear.id = orig.id
    /\ x.r = LoraR /\ x.alpha = LoraAlpha
    /\ ~x.lora_frozen

PlainTree(m) ==
    \A i \in DOMAIN m.layers :
        /\ m.layers[i].has_self_attn
        /\ AttnProjections \subseteq DOMAIN m.layers[i].self_attn
        /\ ~m.layers[i].has_moe

\* C3: on a tree of N layers, each with the four attention projections and
\* no block_sparse_moe, the patch puts exactly 4N wrappers in the tree, one
\* per projection per layer around the module that was there, and every
\* parameter the tree had before is frozen.
C3_FourPerLayer ==
    (lpc # "start" /\ PlainTree(model0)) =>
        /\ lpc = "done"
        /\ Cardinality(Wrappers(model)) = 4 * Len(model0.layers)
        /\ \A i \in DOMAIN model0.layers : \A n \in AttnProjections :
              Wraps(model.layers[i].self_attn[n], model0.layers[i].self_attn[n])
        /\ \A x \in Modules(model) : BaseFrozen(x)

C3_Witness ==
    /\ lpc = "done" /\ PlainTree(model0) /\ Len(model0.layers) = MaxLayers
    /\ ~model0.layers[1].input_layernorm.frozen
    /\ Cardinality(Wrappers(model)) = 4 * MaxLayers

WellFormed(m) ==
    \A i \in DOMAIN m.layers :
        /\ m.layers[i].has_self_attn
        /\ m.layers[i].has_moe => m.layers[i].has_experts

SameAttrs(m, m0) ==
    /\ DOMAIN m.layers = DOMAIN m0.layers
    /\ \A i \in DOMAIN m0.layers :
          /\ DOMAIN m.layers[i].self_attn = DOMAIN m0.layers[i].self_attn
          /\ DOMAIN m.layers[i].block_sparse_moe = DOMAIN m0.layers[i].block_sparse_moe
          /\ DOMAIN m.layers[i].experts = DOMAIN m0.layers[i].experts
          /\ \A k \in DOMAIN m0.layers[i].experts :
                DOMAIN m.layers[i].experts[k] = DOMAIN m0.layers[i].experts[k]

\* C4 (as stated): the patch never raises, whatever a layer has or lacks.
C4_AsStated == lpc # "start" => (lpc = "done" /\ lerr = "none")

\* C4 (amended): the patch completes without raising exactly on the trees
\* in which every layer has a self_attn and every block_sparse_moe has an
\* experts list; there absent projections are skipped and no attribute is
\* created.  A layer without self_attn, or a block_sparse_moe without
\* experts, raises AttributeError.
C4_SkipsAbsent ==
    lpc # "start" =>
        /\ WellFormed(model0) <=> lpc = "done"
        /\ lpc = "done" => (lerr = "none" /\ lfail = 0)
        /\ lpc = "raised" => (lerr = "AttributeError" /\ lfail \in DOMAIN model0.layers)
        /\ SameAttrs(model, model0)

C4_Witness ==
    /\ lpc = "done" /\ Len(model0.layers) >= 1
    /\ \E i \in DOMAIN model0.layers :
          /\ DOMAIN model0.layers[i].self_attn \cap AttnProjections = {}
          /\ model0.layers[i].has_moe
          /\ "down_proj" \notin DOMAIN model0.layers[i].block_sparse_moe
          /\ "down_proj" \notin DOMAIN model.layers[i].block_sparse_moe
          /\ FnRange(model.layers[i].self_attn) \cap Wrappers(model) = {}

QVOnly(l) == l.has_self_attn /\ DOMAIN l.self_attn = {"q_proj", "v_proj"}

\* C5: where a layer's attention block exposes only q_proj and v_proj, the
\* patch wraps exactly those two, creates no k_proj or o_proj, and the
\* attention block is never the cause of an error.
C5_OnlyPresentReplaced ==
    lpc # "start" =>
        \A i \in DOMAIN model0.layers :
            QVOnly(model0.layers[i]) =>
                /\ DOMAIN model.layers[i].self_attn = {"q_proj", "v_proj"}
                /\ (lfail = 0 \/ i <= lfail) =>
                      \A n \in {"q_proj", "v_proj"} :
                          Wraps(model.layers[i].self_attn[n], model0.layers[i].self_attn[n])
                /\ lfail = i => (model0.layers[i].has_moe /\ ~model0.layers[i].has_experts)
                /\ WellFormed(model0) => lpc = "done"

C5_Witness ==
    /\ lpc = "done"
    /\ \E i \in DOMAIN model0.layers :
          /\ QVOnly(model0.layers[i])
          /\ Cardinality({ x \in FnRange(model.layers[i].self_attn) : x.cls = "LoRALinear" }) = 2

\* the layer was worked through to its end
Finished(i) == lfail = 0 \/ i < lfail
\* the layer was worked through as far as its block_sparse_moe projections
MoeReached(i) == lfail = 0 \/ i <= lfail
\* attrs is attrs0 with exactly the names of `names` wrapped, each once
PatchedExactly(attrs, attrs0, names) ==
    /\ DOMAIN attrs = DOMAIN attrs0
    /\ \A n \in DOMAIN attrs0 :
          IF n \in names
            THEN Wraps(attrs[n], attrs0[n])
            ELSE attrs[n].cls = "Linear" /\ attrs[n].id = attrs0[n].id

\* C9: in a layer with a block_sparse_moe, the patch wraps gate_proj,
\* up_proj and down_proj where the block has them and, on every expert of
\* the block, each of the seven projection names the expert has; each is
\* wrapped once and nothing else is; a layer without block_sparse_moe gets
\* only its attention projections wrapped.
C9_MoeAndExperts ==
    lpc # "start" =>
        \A i \in DOMAIN model0.layers :
            LET l == model.layers[i]
                l0 == model0.layers[i]
            IN  /\ (l0.has_moe /\ l0.has_self_attn /\ MoeReached(i)) =>
                      PatchedExactly(l.block_sparse_moe, l0.block_sparse_moe, MoeProjections)
                /\ (l0.has_moe /\ Finished(i)) =>
                      /\ DOMAIN l.experts = DOMAIN l0.experts
                      /\ \A k \in DOMAIN l0.experts :
                            PatchedExactly(l.experts[k], l0.experts[k], Range(projections))
                /\ (~l0.has_moe /\ Finished(i)) =>
                      /\ PatchedExactly(l.self_attn, l0.self_attn, AttnProjections)
                      /\ { x \in LayerModules(l) : x.cls = "LoRALinear" }
                            \subseteq FnRange(l.self_attn)

C9_Witness ==
    /\ lpc = "done"
    /\ \E i \in DOMAIN model0.layers :
          /\ model0.layers[i].has_moe
          /\ "gate_proj" \in DOMAIN model0.layers[i].block_sparse_moe
          /\ Len(model0.layers[i].experts) >= 1
          /\ "q_proj" \in DOMAIN model0.layers[i].experts[1]
          /\ model.layers[i].experts[1]["q_proj"].cls = "LoRALinear"
          /\ model.layers[i].block_sparse_moe["gate_proj"].cls = "LoRALinear"

\* the load of a dataset fails: no such file, or a line that does not parse
LoadFails(kind, lines) ==
    \/ kind # "file"
    \/ \E i \in DOMAIN lines : lines[i].form \in {"blank", "garbage"}
SetupFails == ~modelOk \/ LoadFails(pathKind, fileLines) \/ LoadFails(valKind, valLines)

\* C10: the cell runs load, then adapt, then train: train() is called at
\* most once, and only with the model and both datasets loaded and the
\* patch finished over every layer; the patch is started only after the
\* loads; when a load fails, neither the patch nor train() is started.
C10_LoadAdaptTrain ==
    /\ trainCalls <= 1 /\ adaptCalls <= 1
    /\ trainCalls = 1 =>
          /\ modelOk
          /\ result.cls = "Dataset" /\ valResult.cls = "Dataset"
          /\ adaptCalls = 1 /\ lpc = "done" /\ lfail = 0
          /\ rpc \in {"end", "failed"}
    /\ adaptCalls = 1 =>
          /\ modelOk
          /\ result.cls = "Dataset" /\ valResult.cls = "Dataset"
          /\ lpc # "start"
    /\ (rpc = "train" \/ rpc = "end") => (lpc = "done" /\ adaptCalls = 1)
    /\ rpc = "adapt" => (lpc = "start" /\ adaptCalls = 0 /\ trainCalls = 0)
    /\ (SetupFails /\ rpc # "setup") =>
          /\ rpc = "failed"
          /\ adaptCalls = 0 /\ trainCalls = 0
          /\ lpc = "start" /\ model = model0

C10_Witness ==
    /\ rpc = "end" /\ trainCalls = 1 /\ adaptCalls = 1
    /\ Len(model0.layers) >= 1 /\ Wrappers(model) # {}
    /\ Dataset_len(result) >= 1 /\ Dataset_len(valResult) >= 1

====
